---- MODULE Spec2Model ----
(***************************************************************************)
(* Asynchronous notification delivery of the contact backend:              *)
(*   backend/email_queue.py  EmailJob, EmailQueue (start/stop/enqueue and  *)
(*                           the _worker loop with its retry policy)       *)
(*   backend/mailer.py       _partition_recipients, send_email             *)
(*   backend/audit.py        record_event                                  *)
(*   backend/rate_limit.py   RateLimiter.allow                             *)
(* Strings that the code inspects (recipients) are sequences of one-       *)
(* character strings, so that strip/lower/startswith are computed.         *)
(***************************************************************************)
EXTENDS Integers, Sequences, FiniteSets, TLC

(***************************************************************************)
(* Bounds of the exploration.                                              *)
(***************************************************************************)
\* jobs that enqueue() may create
MaxJobs == 2
\* threading.Thread objects that start() may create
MaxThreads == 2
\* threads of the host program that call start() / stop()
NumCallers == 2
\* EmailQueue(max_retries=...): the constructor argument (default 5)
max_retries == 2
\* RateLimiter(max_requests=..., window_seconds=...): constructor arguments
max_requests == 2
window_seconds == 2
\* last value of the clock, and the number of allow() calls explored
MaxTime == 5
MaxCalls == 5
\* the number of allow() calls explored when they run concurrently
RaceCalls == 4
\* largest EmailQueue(max_retries=...) explored for the backoff schedule
MaxRetryLimit == 5
\* app.py: REQUESTS_PER_MINUTE and MAX_BODY_BYTES (environment variables,
\* defaults 120 and 65536), the 60-second window of _rate_limit_check
\* counted in ticks of 30 seconds, and the ceilings of line 178 (200, 320
\* and 4000 characters) scaled down to strings the model can enumerate
REQUESTS_PER_MINUTE == 2
MAX_BODY_BYTES == 4
HandlerWindow == 2
MaxNameLen == 3
MaxEmailLen == 7
MaxMessageLen == 3
\* rows the contacts table may hold
MaxContacts == 2

None == "None"

JobIds == 1..MaxJobs
ThreadIds == 1..MaxThreads
Callers == 1..NumCallers

(***************************************************************************)
(* Strings as sequences of characters.                                     *)
(***************************************************************************)
IsSpace(c) == c \in {" ", "\t", "\n"}

\* str.lower(), on the letters the model's strings use
LowerChar(c) ==
  CASE c = "H" -> "h"
    [] c = "T" -> "t"
    [] c = "P" -> "p"
    [] c = "S" -> "s"
    [] c = "A" -> "a"
    [] OTHER -> c

Lower(s) == [i \in 1..Len(s) |-> LowerChar(s[i])]

RECURSIVE LStrip(_)
LStrip(s) == IF s # <<>> /\ IsSpace(Head(s)) THEN LStrip(Tail(s)) ELSE s

RECURSIVE RStrip(_)
RStrip(s) ==
  IF s # <<>> /\ IsSpace(s[Len(s)]) THEN RStrip(SubSeq(s, 1, Len(s) - 1)) ELSE s

\* str.strip()
Strip(s) == RStrip(LStrip(s))

\* str.startswith(p)
StartsWith(s, p) == Len(s) >= Len(p) /\ SubSeq(s, 1, Len(p)) = p

\* c in s
Contains(s, c) == \E i \in 1..Len(s) : s[i] = c

HttpPrefix == <<"h", "t", "t", "p", ":", "/", "/">>
HttpsPrefix == <<"h", "t", "t", "p", "s", ":", "/", "/">>

\* recipient strings used as inputs
MailAddr == <<"a", "@", "b">>
PaddedMailAddr == <<" ", "c", "@", "d", " ">>
HookUrl == <<"h", "t", "t", "p", ":", "/", "/", "x">>
HookUrlUpper == <<"H", "T", "T", "P", "S", ":", "/", "/", "y">>
BlankRecipient == <<" ", " ">>
OddRecipient == <<"x", "/", "y">>
HookUrlSecure == <<"h", "t", "t", "p", "s", ":", "/", "/", "z">>
TwoAtRecipient == <<"a", "@", "@", "b">>
PaddedHookUrl == <<" ", "h", "t", "t", "p", ":", "/", "/", "w">>

(***************************************************************************)
(* mailer.py                                                               *)
(***************************************************************************)
\* a test that forgets the plain http:// scheme
IsWebhookSecureOnly(r) == StartsWith(Lower(r), HttpsPrefix)

IsWebhook(r) == StartsWith(Lower(r), HttpPrefix) \/ StartsWith(Lower(r), HttpsPrefix)

RECURSIVE PartitionFrom(_, _, _)
PartitionFrom(recipients, emails, webhooks) ==
  IF recipients = <<>> THEN [emails |-> emails, webhooks |-> webhooks]
  ELSE LET r == Strip(Head(recipients))
           rest == Tail(recipients)
       IN  IF r = <<>> THEN PartitionFrom(rest, emails, webhooks)
           ELSE IF IsWebhook(r) THEN PartitionFrom(rest, emails, Append(webhooks, r))
           ELSE IF Contains(r, "@") /\ ~Contains(r, "/")
                THEN PartitionFrom(rest, Append(emails, r), webhooks)
           ELSE PartitionFrom(rest, Append(emails, r), webhooks)

\* _partition_recipients(recipients) -> (emails, webhooks)
PartitionRecipients(recipients) == PartitionFrom(recipients, <<>>, <<>>)

Falsy(x) == x = None \/ x = ""

\* a or b
PyOr(a, b) == IF Falsy(a) THEN b ELSE a

\* index of the first webhook whose POST fails, or Len(webhooks) + 1
FirstFailedHook(webhooks, hookOk) ==
  LET bad == {i \in 1..Len(webhooks) : ~hookOk[i]}
  IN  IF bad = {} THEN Len(webhooks) + 1
      ELSE CHOOSE i \in bad : \A k \in bad : i <= k

NoSend ==
  [smtp_tried |-> FALSE, smtp_to |-> <<>>, dev_fallback |-> FALSE,
   posts |-> <<>>, from_email |-> None, from_hook |-> None]

ErrNoSender == "MAIL_FROM is not configured"
ErrNoRecipients == "No recipients specified"
ErrSmtp == "SMTP transport error"
ErrWebhook == "Webhook send failed"

\* send_email, line 75: if not sender and not from_override
NoSender(sender, from_override) == Falsy(sender) /\ Falsy(from_override)

\* send_email, lines 86-88: if emails: if os.getenv("SMTP_HOST"): SMTP
UseSmtp(emails, e) == emails # <<>> /\ ~Falsy(e.SMTP_HOST)

\* a missing SMTP endpoint treated as a silent success: nothing is emitted
UseDevFallbackSilent(emails, e) == FALSE

\* send_email, lines 86-98: if emails: ... else: the printed dev fallback
UseDevFallback(emails, e) == emails # <<>> /\ Falsy(e.SMTP_HOST)

\* send_email(recipients, subject, body_text, reply_to, from_override) under
\* the environment e; smtpOk and hookOk[i] are the outcomes of the SMTP
\* session and of the POST to the i-th webhook.  error = None: it returned.
SendEmail(recipients, from_override, e, smtpOk, hookOk) ==
  LET sender == e.MAIL_FROM
      parts == PartitionRecipients(recipients)
      emails == parts.emails
      webhooks == parts.webhooks
      effective_from_override ==
        IF e.ALLOW_SUBMITTER_AS_FROM /\ ~Falsy(from_override) THEN from_override ELSE None
      use_smtp == UseSmtp(emails, e)
      use_dev == UseDevFallback(emails, e)
      \* _send_via_smtp: display_from = from_override or sender
      smtp_from == PyOr(effective_from_override, PyOr(sender, PyOr(effective_from_override, "")))
      shown_from == PyOr(effective_from_override, sender)
      k == FirstFailedHook(webhooks, hookOk)
      tried == IF k > Len(webhooks) THEN webhooks ELSE SubSeq(webhooks, 1, k)
  IN  IF NoSender(sender, from_override)
        THEN NoSend @@ [error |-> ErrNoSender]
      ELSE IF emails = <<>> /\ webhooks = <<>>
        THEN NoSend @@ [error |-> ErrNoRecipients]
      ELSE IF use_smtp /\ ~smtpOk
        THEN [NoSend EXCEPT !.smtp_tried = TRUE, !.from_email = smtp_from]
             @@ [error |-> ErrSmtp]
      ELSE [smtp_tried |-> use_smtp,
            smtp_to |-> IF use_smtp THEN emails ELSE <<>>,
            dev_fallback |-> use_dev,
            posts |-> tried,
            from_email |-> IF use_smtp THEN smtp_from
                           ELSE IF use_dev THEN shown_from ELSE None,
            from_hook |-> IF tried # <<>> THEN shown_from ELSE None,
            error |-> IF k > Len(webhooks) THEN None ELSE ErrWebhook]

(***************************************************************************)
(* State.                                                                  *)
(***************************************************************************)
VARIABLES
  \* os.environ as send_email reads it
  env,
  \* the EmailJob objects created so far; jobs[j].attempts is job.attempts
  jobs,
  \* EmailQueue._queue, _stop_event, _thread (0: None)
  queue, stop_event, thread,
  \* per Thread object: "none" (not created), "new" (created, not started),
  \* "check" (at the while test), "get" (in _queue.get), "send" (in
  \* send_email), "sleep" (in time.sleep), "dead" (returned)
  thr,
  \* the local variable job of each worker (0: none)
  held,
  \* where each caller of start() / stop() stands
  cpc,
  \* record_event calls per job and event type
  audit,
  \* history: _queue.get returns and send_email calls per job
  takes, sends,
  \* history: dev-fallback emissions per job, error of the last send_email
  devEmits, lastError,
  \* history: jobs dropped after success / after the retry ceiling
  delivered, permFailed,
  \* history: number of jobs created when the job was last re-enqueued
  reqMark,
  \* history: per worker, -1 until stop() sets the event while it runs,
  \* then the number of jobs it has taken since
  afterStop,
  \* history, per job: the targets that took the message in an attempt
  \* before the latest one, the targets contacted in the latest attempt and
  \* those that took the message in it
  sentOk, lastTried, lastOk,
  \* whether the audit database can be written, and the rows of audit_events
  sink_up, audit_rows,
  \* history: "none" until stop() is called, "stopping" while a stop() call
  \* runs, "stopped" from its return until a start() call returns,
  \* "restarted" from then until the next stop()
  since_stop,
  \* RateLimiter: the clock, _ip_to_timestamps, and the calls made so far
  now, ip_to_timestamps, calls,
  \* per thread inside allow(): "idle", or "wait" (it has read the clock and
  \* waits for the lock), with its arguments and its local variable now
  rl_pc, rl_ip, rl_now,
  \* one send_email call observed in isolation: <<>>, or its arguments and
  \* its outcome as one-element sequences
  sendIn, sendOut,
  \* the backoff schedule of one job that keeps failing: the queue's
  \* base_backoff_seconds (in milliseconds) and max_retries, job.attempts,
  \* where the worker is with it ("send", "sleep", "failed"), and the
  \* sleep_for values passed to time.sleep so far (in milliseconds)
  bo_base, bo_limit, bo_attempts, bo_pc, bo_sleeps,
  \* app.py: ContactRequestHandler.rate_limit_buckets, the rows of the
  \* contacts table in insertion order, and as history the bodies of the
  \* POST /api/contact requests answered 201, and the request served last
  \* with its response: lastPost when it was a POST /api/contact, lastGet
  \* when it was a GET /api/contacts (<<>> otherwise)
  rate_limit_buckets, contacts, accepted, lastPost, lastGet,
  \* one craft_subject_and_body call observed in isolation
  composeIn, composeOut,
  \* a function called repeatedly on one input: <<>> or <<input>>, and the
  \* results of the calls made with it so far
  pureIn, pureOut,
  \* the request limit given to both limiters when they are compared, and
  \* the rate-limit checks completed so far
  limit, h_log,
  \* per handler thread inside _rate_limit_check: "idle", "scan" (before
  \* the loop), "del", "test", "append", and its locals ip, now and i
  h_pc, h_ip, h_now, h_i

traceVars == <<sentOk, lastTried, lastOk, sink_up, audit_rows>>
queueVars == <<env, jobs, queue, stop_event, thread, thr, held, cpc, audit, takes,
               sends, devEmits, lastError, delivered, permFailed, reqMark, afterStop,
               traceVars, since_stop>>
rateVars == <<now, ip_to_timestamps, calls, rl_pc, rl_ip, rl_now>>
sendVars == <<sendIn, sendOut>>
backoffVars == <<bo_base, bo_limit, bo_attempts, bo_pc, bo_sleeps>>
httpVars == <<rate_limit_buckets, contacts, accepted, lastPost, lastGet>>
composeVars == <<composeIn, composeOut>>
pureVars == <<pureIn, pureOut>>
guardVars == <<limit, h_log, h_pc, h_ip, h_now, h_i>>
otherVars == <<backoffVars, httpVars, composeVars, pureVars, guardVars>>
vars == <<queueVars, rateVars, sendVars, otherVars>>

MailFromValues == {None, "noreply@site"}
SmtpHostValues == {None, "smtp.site"}
FromOverrides == {None, "visitor@mail"}
Environments ==
  [MAIL_FROM : MailFromValues, SMTP_HOST : SmtpHostValues,
   ALLOW_SUBMITTER_AS_FROM : BOOLEAN]

\* the environments the queue is explored under: everything configured,
\* no SMTP endpoint, nothing configured
FullEnvironment ==
  [MAIL_FROM |-> "noreply@site", SMTP_HOST |-> "smtp.site", ALLOW_SUBMITTER_AS_FROM |-> FALSE]
QueueEnvironments ==
  {FullEnvironment,
   [MAIL_FROM |-> "noreply@site", SMTP_HOST |-> None, ALLOW_SUBMITTER_AS_FROM |-> FALSE],
   [MAIL_FROM |-> None, SMTP_HOST |-> None, ALLOW_SUBMITTER_AS_FROM |-> FALSE]}

\* the (recipients, from_override) pairs handed to enqueue()
HookJob == [recipients |-> <<HookUrl>>, from_override |-> None]
JobKinds ==
  {[recipients |-> <<MailAddr>>, from_override |-> None],
   [recipients |-> <<MailAddr>>, from_override |-> "visitor@mail"],
   HookJob,
   [recipients |-> <<MailAddr, HookUrl>>, from_override |-> None],
   [recipients |-> <<BlankRecipient>>, from_override |-> None]}
MaxRecipients == 3
HookOutcomes == [1..MaxRecipients -> BOOLEAN]

Identities == {"10.0.0.1", "10.0.0.2"}

InitQueue ==
  /\ jobs = <<>>
  /\ queue = <<>>
  /\ stop_event = FALSE
  /\ thread = 0
  /\ thr = [t \in ThreadIds |-> "none"]
  /\ held = [t \in ThreadIds |-> 0]
  /\ cpc = [c \in Callers |-> "idle"]
  /\ audit = [j \in JobIds |-> [email_sent |-> 0, email_send_retry |-> 0, email_send_failed |-> 0]]
  /\ takes = [j \in JobIds |-> 0]
  /\ sends = [j \in JobIds |-> 0]
  /\ devEmits = [j \in JobIds |-> 0]
  /\ lastError = [j \in JobIds |-> None]
  /\ delivered = {}
  /\ permFailed = {}
  /\ reqMark = [j \in JobIds |-> 0]
  /\ afterStop = [t \in ThreadIds |-> -1]
  /\ sentOk = [j \in JobIds |-> {}]
  /\ lastTried = [j \in JobIds |-> {}]
  /\ lastOk = [j \in JobIds |-> {}]
  /\ sink_up = TRUE
  /\ audit_rows = 0
  /\ since_stop = "none"

InitRate ==
  /\ now = 0
  /\ ip_to_timestamps = [ip \in {} |-> <<>>]
  /\ calls = <<>>
  /\ rl_pc = [c \in Callers |-> "idle"]
  /\ rl_ip = [c \in Callers |-> None]
  /\ rl_now = [c \in Callers |-> 0]

InitSend ==
  /\ sendIn = <<>>
  /\ sendOut = <<>>

\* base_backoff_seconds values, in milliseconds (the default is 1000)
BackoffBases == {0, 50, 110, 1000, 2000}

\* EmailQueue(): max_retries and base_backoff_seconds as given, no failure yet
InitBackoffDefault ==
  /\ bo_base = 1000
  /\ bo_limit = MaxRetryLimit
  /\ bo_attempts = 0
  /\ bo_pc = "send"
  /\ bo_sleeps = <<>>

\* initialize_database() on a new file, no request served yet
InitHttp ==
  /\ rate_limit_buckets = [ip \in {} |-> <<>>]
  /\ contacts = <<>>
  /\ accepted = <<>>
  /\ lastPost = <<>>
  /\ lastGet = <<>>

InitCompose ==
  /\ composeIn = <<>>
  /\ composeOut = <<>>

InitPure ==
  /\ pureIn = <<>>
  /\ pureOut = <<>>

\* no handler thread inside _rate_limit_check
InitThreads ==
  /\ h_log = <<>>
  /\ h_pc = [c \in Callers |-> "idle"]
  /\ h_ip = [c \in Callers |-> None]
  /\ h_now = [c \in Callers |-> 0]
  /\ h_i = [c \in Callers |-> 0]

InitGuard == limit = REQUESTS_PER_MINUTE /\ InitThreads

InitOther == InitBackoffDefault /\ InitHttp /\ InitCompose /\ InitPure /\ InitGuard

Init == env = FullEnvironment /\ InitQueue /\ InitRate /\ InitSend /\ InitOther

InitDelivery == env \in QueueEnvironments /\ InitQueue /\ InitRate /\ InitSend /\ InitOther

(***************************************************************************)
(* email_queue.py: EmailQueue                                              *)
(***************************************************************************)
\* Thread.is_alive()
IsAlive(t) == thr[t] \in {"check", "get", "send", "sleep"}

\* history: what a start() call that returns makes of since_stop
AfterStart(was) == IF was = "stopped" THEN "restarted" ELSE was

\* start(), line 31: if self._thread and self._thread.is_alive(): return
StartCheck(c) ==
  /\ cpc[c] = "idle"
  /\ ~(thread # 0 /\ IsAlive(thread))
  /\ cpc' = [cpc EXCEPT ![c] = "start_clear"]
  /\ UNCHANGED <<env, jobs, queue, stop_event, thread, thr, held, audit, takes, sends,
                 devEmits, lastError, delivered, permFailed, reqMark, afterStop>>
  /\ UNCHANGED <<since_stop, traceVars, rateVars, sendVars, otherVars>>

\* start(), line 33: self._stop_event.clear()
StartClear(c) ==
  /\ cpc[c] = "start_clear"
  /\ stop_event' = FALSE
  /\ cpc' = [cpc EXCEPT ![c] = "start_create"]
  /\ UNCHANGED <<env, jobs, queue, thread, thr, held, audit, takes, sends,
                 devEmits, lastError, delivered, permFailed, reqMark, afterStop>>
  /\ UNCHANGED <<since_stop, traceVars, rateVars, sendVars, otherVars>>

\* start(), line 34: self._thread = threading.Thread(target=self._worker, ...)
StartCreate(c) ==
  /\ cpc[c] = "start_create"
  /\ \E t \in ThreadIds :
       /\ thr[t] = "none"
       /\ \A u \in ThreadIds : u < t => thr[u] # "none"
       /\ thr' = [thr EXCEPT ![t] = "new"]
       /\ thread' = t
  /\ cpc' = [cpc EXCEPT ![c] = "start_run"]
  /\ UNCHANGED <<env, jobs, queue, stop_event, held, audit, takes, sends,
                 devEmits, lastError, delivered, permFailed, reqMark, afterStop>>
  /\ UNCHANGED <<since_stop, traceVars, rateVars, sendVars, otherVars>>

\* start(), line 35: self._thread.start(); on a thread that another caller
\* already started it raises RuntimeError and starts nothing
StartRun(c) ==
  /\ cpc[c] = "start_run"
  /\ thr' = IF thr[thread] = "new" THEN [thr EXCEPT ![thread] = "check"] ELSE thr
  /\ cpc' = [cpc EXCEPT ![c] = "idle"]
  /\ since_stop' = AfterStart(since_stop)
  /\ UNCHANGED <<env, jobs, queue, stop_event, thread, held, audit, takes, sends,
                 devEmits, lastError, delivered, permFailed, reqMark, afterStop>>
  /\ UNCHANGED <<traceVars, rateVars, sendVars, otherVars>>

\* start(), lines 31-32: the thread is alive, start() returns at once
StartSkip(c) ==
  /\ cpc[c] = "idle"
  /\ thread # 0 /\ IsAlive(thread)
  /\ since_stop' = AfterStart(since_stop)
  /\ UNCHANGED <<env, jobs, queue, stop_event, thread, thr, held, cpc, audit, takes, sends,
                 devEmits, lastError, delivered, permFailed, reqMark, afterStop>>
  /\ UNCHANGED <<traceVars, rateVars, sendVars, otherVars>>

\* stop(), line 38: self._stop_event.set()
Stop(c) ==
  /\ cpc[c] = "idle"
  /\ stop_event' = TRUE
  /\ cpc' = [cpc EXCEPT ![c] = "stop_join"]
  /\ afterStop' = [t \in ThreadIds |-> IF IsAlive(t) THEN 0 ELSE afterStop[t]]
  /\ since_stop' = "stopping"
  /\ UNCHANGED <<env, jobs, queue, thread, thr, held, audit, takes, sends,
                 devEmits, lastError, delivered, permFailed, reqMark>>
  /\ UNCHANGED <<traceVars, rateVars, sendVars, otherVars>>

\* stop(), lines 39-40: if self._thread: self._thread.join(timeout=2) returns,
\* because the thread has ended, or on the timeout with the thread inside
\* send_email (its SMTP session alone may take 10 seconds) or inside
\* time.sleep; a thread that polls the queue ends within the timeout
StopJoin(c) ==
  /\ cpc[c] = "stop_join"
  /\ IF thread = 0 THEN TRUE ELSE thr[thread] \notin {"check", "get"}
  /\ cpc' = [cpc EXCEPT ![c] = "idle"]
  /\ since_stop' = "stopped"
  /\ UNCHANGED <<env, jobs, queue, stop_event, thread, thr, held, audit, takes, sends,
                 devEmits, lastError, delivered, permFailed, reqMark, afterStop>>
  /\ UNCHANGED <<traceVars, rateVars, sendVars, otherVars>>

\* a put that drops the item
QueuePutNowhere(q, j) == q

\* a put at the head instead of the tail
QueuePutFront(q, j) == <<j>> \o q

\* Queue.put(item): at the tail
QueuePut(q, j) == Append(q, j)

\* a get that leaves the item in the queue
QueueRestKeep(q) == q

\* what Queue.get() leaves in the queue
QueueRest(q) == Tail(q)

\* enqueue(recipients, subject, body, reply_to=, from_override=), lines 42-43
Enqueue(recipients, from_override) ==
  /\ Len(jobs) < MaxJobs
  /\ jobs' = Append(jobs, [recipients |-> recipients, from_override |-> from_override,
                           attempts |-> 0])
  /\ queue' = QueuePut(queue, Len(jobs) + 1)
  /\ UNCHANGED <<env, stop_event, thread, thr, held, cpc, audit, takes, sends,
                 devEmits, lastError, delivered, permFailed, reqMark, afterStop>>
  /\ UNCHANGED <<since_stop, traceVars, rateVars, sendVars, otherVars>>

\* _worker, line 46: while not self._stop_event.is_set()
WorkerCheck(t) ==
  /\ thr[t] = "check"
  /\ thr' = [thr EXCEPT ![t] = IF stop_event THEN "dead" ELSE "get"]
  /\ UNCHANGED <<env, jobs, queue, stop_event, thread, held, cpc, audit, takes, sends,
                 devEmits, lastError, delivered, permFailed, reqMark, afterStop>>
  /\ UNCHANGED <<since_stop, traceVars, rateVars, sendVars, otherVars>>

\* _worker, line 48: job = self._queue.get(timeout=0.5) returns the head
WorkerGet(t) ==
  /\ thr[t] = "get"
  /\ queue # <<>>
  /\ held' = [held EXCEPT ![t] = Head(queue)]
  /\ queue' = QueueRest(queue)
  /\ thr' = [thr EXCEPT ![t] = "send"]
  /\ takes' = [takes EXCEPT ![Head(queue)] = @ + 1]
  /\ afterStop' = [afterStop EXCEPT ![t] = IF @ \in {0, 1} THEN @ + 1 ELSE @]
  /\ UNCHANGED <<env, jobs, stop_event, thread, cpc, audit, sends,
                 devEmits, lastError, delivered, permFailed, reqMark>>
  /\ UNCHANGED <<since_stop, traceVars, rateVars, sendVars, otherVars>>

\* _worker, lines 49-50: except Empty: continue
WorkerEmpty(t) ==
  /\ thr[t] = "get"
  /\ queue = <<>>
  /\ thr' = [thr EXCEPT ![t] = "check"]
  /\ UNCHANGED <<env, jobs, queue, stop_event, thread, held, cpc, audit, takes, sends,
                 devEmits, lastError, delivered, permFailed, reqMark, afterStop>>
  /\ UNCHANGED <<since_stop, traceVars, rateVars, sendVars, otherVars>>

\* the retry test with the ceiling one too low
ShouldRetryStrict(attempts) == attempts < max_retries

\* the retry test with the ceiling one too high
ShouldRetryLate(attempts) == attempts <= max_retries + 1

\* _worker, line 57: if job.attempts <= self._max_retries
ShouldRetry(attempts) == attempts <= max_retries

\* a failure that restarts the count instead of adding to it
NextAttemptsReset(attempts) == 1

\* _worker, line 56: job.attempts += 1
NextAttempts(attempts) == attempts + 1

\* audit.record_event(event_type, details): one call, never raises
RecordEvent(a, event_type, j) == [a EXCEPT ![j][event_type] = @ + 1]

\* an audit sink that lets its failure escape to the caller
SinkRaisesOnFailure(up) == ~up

\* audit.record_event, lines 34-40: except Exception: pass, and the close()
\* in finally is guarded the same way: whether the call raises
SinkRaises(up) == FALSE

\* what one dispatch reaches: 0 is the group of email recipients, k the
\* k-th webhook recipient
Targets(recipients) ==
  LET parts == PartitionRecipients(recipients)
  IN  (IF parts.emails # <<>> THEN {0} ELSE {}) \cup (1..Len(parts.webhooks))

\* the targets the send_email call r contacted, and those that took the message
TriedIn(r) ==
  (IF r.smtp_tried THEN {0} ELSE {}) \cup (1..Len(r.posts))
SentIn(r) ==
  (IF r.smtp_tried /\ r.error # ErrSmtp THEN {0} ELSE {})
    \cup (IF r.error = ErrWebhook THEN 1..(Len(r.posts) - 1) ELSE 1..Len(r.posts))

\* _worker, lines 52-78 up to the backoff sleep: the send_email call, and
\* what the try / except / finally does with its outcome and with the
\* outcome of the record_event calls (an exception of the first one is
\* handled like one of send_email, an exception of one made in the except
\* block ends the thread after task_done)
WorkerSend(t) ==
  /\ thr[t] = "send"
  /\ \E smtpOk \in BOOLEAN, hookOk \in HookOutcomes :
       LET j == held[t]
           r == SendEmail(jobs[j].recipients, jobs[j].from_override, env, smtpOk, hookOk)
           n == NextAttempts(jobs[j].attempts)
           raised == SinkRaises(sink_up)
           stored == IF sink_up THEN 1 ELSE 0
           a1 == IF r.error = None THEN RecordEvent(audit, "email_sent", j) ELSE audit
           rows1 == IF r.error = None THEN audit_rows + stored ELSE audit_rows
       IN  /\ sends' = [sends EXCEPT ![j] = @ + 1]
           /\ devEmits' = [devEmits EXCEPT ![j] = IF r.dev_fallback THEN @ + 1 ELSE @]
           /\ lastError' = [lastError EXCEPT ![j] = r.error]
           /\ sentOk' = [sentOk EXCEPT ![j] = @ \cup lastOk[j]]
           /\ lastTried' = [lastTried EXCEPT ![j] = TriedIn(r)]
           /\ lastOk' = [lastOk EXCEPT ![j] = SentIn(r)]
           /\ IF r.error = None /\ ~raised
                THEN /\ audit' = a1
                     /\ audit_rows' = rows1
                     /\ delivered' = delivered \cup {j}
                     /\ held' = [held EXCEPT ![t] = 0]
                     /\ thr' = [thr EXCEPT ![t] = "check"]
                     /\ UNCHANGED <<jobs, permFailed>>
                ELSE /\ jobs' = [jobs EXCEPT ![j].attempts = n]
                     /\ audit_rows' = rows1 + stored
                     /\ IF ShouldRetry(n)
                          THEN /\ audit' = RecordEvent(a1, "email_send_retry", j)
                               /\ IF raised
                                    THEN /\ thr' = [thr EXCEPT ![t] = "dead"]
                                         /\ held' = [held EXCEPT ![t] = 0]
                                    ELSE /\ thr' = [thr EXCEPT ![t] = "sleep"]
                                         /\ UNCHANGED held
                               /\ UNCHANGED permFailed
                          ELSE /\ audit' = RecordEvent(a1, "email_send_failed", j)
                               /\ permFailed' = IF raised THEN permFailed ELSE permFailed \cup {j}
                               /\ held' = [held EXCEPT ![t] = 0]
                               /\ thr' = [thr EXCEPT ![t] = IF raised THEN "dead" ELSE "check"]
                     /\ UNCHANGED delivered
  /\ UNCHANGED <<env, queue, stop_event, thread, cpc, takes, reqMark, afterStop, sink_up,
                 since_stop>>
  /\ UNCHANGED <<rateVars, sendVars, otherVars>>

\* _worker, lines 72-73 and 78: time.sleep(sleep_for) returns, then
\* self._queue.put(job) and task_done()
WorkerRequeue(t) ==
  /\ thr[t] = "sleep"
  /\ queue' = QueuePut(queue, held[t])
  /\ reqMark' = [reqMark EXCEPT ![held[t]] = Len(jobs)]
  /\ held' = [held EXCEPT ![t] = 0]
  /\ thr' = [thr EXCEPT ![t] = "check"]
  /\ UNCHANGED <<env, jobs, stop_event, thread, cpc, audit, takes, sends,
                 devEmits, lastError, delivered, permFailed, afterStop>>
  /\ UNCHANGED <<since_stop, traceVars, rateVars, sendVars, otherVars>>

(***************************************************************************)
(* Where a job is.                                                         *)
(***************************************************************************)
Created == 1..Len(jobs)

InQueue(j) == \E i \in 1..Len(queue) : queue[i] = j

Holders(j) == {t \in ThreadIds : held[t] = j}

\* the state of job j in the state given by its arguments
StatusOf(n, q, h, th, del, pf, j) ==
  IF j > n THEN "Absent"
  ELSE IF \E i \in 1..Len(q) : q[i] = j THEN "Queued"
  ELSE IF \E t \in ThreadIds : h[t] = j /\ th[t] = "send" THEN "Dispatching"
  ELSE IF \E t \in ThreadIds : h[t] = j /\ th[t] = "sleep" THEN "Retrying"
  ELSE IF j \in del THEN "Delivered"
  ELSE IF j \in pf THEN "PermanentlyFailed"
  ELSE "Lost"

Status(j) == StatusOf(Len(jobs), queue, held, thr, delivered, permFailed, j)

Min(a, b) == IF a <= b THEN a ELSE b

\* start() and stop() called from several threads at once, producers
\* enqueueing webhook jobs, every transport configured
Next ==
  \/ \E c \in Callers : StartCheck(c)
  \/ \E c \in Callers : StartClear(c)
  \/ \E c \in Callers : StartCreate(c)
  \/ \E c \in Callers : StartRun(c)
  \/ \E c \in Callers : Stop(c)
  \/ \E c \in Callers : StopJoin(c)
  \/ \E k \in {HookJob} : Enqueue(k.recipients, k.from_override)
  \/ \E t \in ThreadIds : WorkerCheck(t)
  \/ \E t \in ThreadIds : WorkerGet(t)
  \/ \E t \in ThreadIds : WorkerEmpty(t)
  \/ \E t \in ThreadIds : WorkerSend(t)
  \/ \E t \in ThreadIds : WorkerRequeue(t)

Spec == Init /\ [][Next]_vars

\* start() and stop() called from one thread (process init / shutdown),
\* producers enqueueing every kind of job, under each environment
NextDelivery ==
  \/ \E c \in {1} : StartCheck(c)
  \/ \E c \in {1} : StartClear(c)
  \/ \E c \in {1} : StartCreate(c)
  \/ \E c \in {1} : StartRun(c)
  \/ \E c \in {1} : Stop(c)
  \/ \E c \in {1} : StopJoin(c)
  \/ \E k \in JobKinds : Enqueue(k.recipients, k.from_override)
  \/ \E t \in ThreadIds : WorkerCheck(t)
  \/ \E t \in ThreadIds : WorkerGet(t)
  \/ \E t \in ThreadIds : WorkerEmpty(t)
  \/ \E t \in ThreadIds : WorkerSend(t)
  \/ \E t \in ThreadIds : WorkerRequeue(t)

SpecDelivery == InitDelivery /\ [][NextDelivery]_vars

\* jobs with three recipients, so that a dispatch can stop between two of them
ResendKinds ==
  {[recipients |-> <<MailAddr, HookUrl, HookUrlSecure>>, from_override |-> None],
   [recipients |-> <<HookUrl, HookUrlSecure, HookUrlUpper>>, from_override |-> None]}

\* one start() at process init, no stop(), producers enqueueing jobs with
\* three recipients
NextResend ==
  \/ \E c \in {1} : StartCheck(c)
  \/ \E c \in {1} : StartClear(c)
  \/ \E c \in {1} : StartCreate(c)
  \/ \E c \in {1} : StartRun(c)
  \/ \E k \in ResendKinds : Enqueue(k.recipients, k.from_override)
  \/ \E t \in ThreadIds : WorkerCheck(t)
  \/ \E t \in ThreadIds : WorkerGet(t)
  \/ \E t \in ThreadIds : WorkerEmpty(t)
  \/ \E t \in ThreadIds : WorkerSend(t)
  \/ \E t \in ThreadIds : WorkerRequeue(t)

SpecResend == Init /\ [][NextResend]_vars

\* stop() and then start() again from the thread that owns the queue,
\* producers enqueueing webhook jobs
NextRestart ==
  \/ \E c \in {1} : StartCheck(c)
  \/ \E c \in {1} : StartClear(c)
  \/ \E c \in {1} : StartCreate(c)
  \/ \E c \in {1} : StartRun(c)
  \/ \E c \in {1} : StartSkip(c)
  \/ \E c \in {1} : Stop(c)
  \/ \E c \in {1} : StopJoin(c)
  \/ \E k \in {HookJob} : Enqueue(k.recipients, k.from_override)
  \/ \E t \in ThreadIds : WorkerCheck(t)
  \/ \E t \in ThreadIds : WorkerGet(t)
  \/ \E t \in ThreadIds : WorkerEmpty(t)
  \/ \E t \in ThreadIds : WorkerSend(t)
  \/ \E t \in ThreadIds : WorkerRequeue(t)

SpecRestart == Init /\ [][NextRestart]_vars

\* the worker thread gets the processor again and again, every send_email
\* call and every time.sleep returns, and the start() call made at process
\* init runs to its end.  That send_email returns is weak fairness of
\* WorkerSend(t), written out: the step is enabled exactly when
\* thr[t] = "send" and always leaves that state.
FairResend ==
  /\ SpecResend
  /\ WF_vars(\E c \in {1} : StartCheck(c))
  /\ WF_vars(\E c \in {1} : StartClear(c))
  /\ WF_vars(\E c \in {1} : StartCreate(c))
  /\ WF_vars(\E c \in {1} : StartRun(c))
  /\ WF_vars(\E t \in ThreadIds : WorkerCheck(t))
  /\ WF_vars(\E t \in ThreadIds : WorkerGet(t))
  /\ WF_vars(\E t \in ThreadIds : WorkerEmpty(t))
  /\ \A t \in ThreadIds : []<>(thr[t] # "send")
  /\ WF_vars(\E t \in ThreadIds : WorkerRequeue(t))

\* the audit database becomes unwritable (locked, disk full, path removed)
\* or writable again
SinkFlip ==
  /\ sink_up' = ~sink_up
  /\ UNCHANGED <<env, jobs, queue, stop_event, thread, thr, held, cpc, audit, takes, sends,
                 devEmits, lastError, delivered, permFailed, reqMark, afterStop,
                 sentOk, lastTried, lastOk, audit_rows, since_stop>>
  /\ UNCHANGED <<rateVars, sendVars, otherVars>>

\* one start(), producers enqueueing webhook jobs, an audit database that
\* fails and recovers at any time
NextAudit ==
  \/ \E c \in {1} : StartCheck(c)
  \/ \E c \in {1} : StartClear(c)
  \/ \E c \in {1} : StartCreate(c)
  \/ \E c \in {1} : StartRun(c)
  \/ \E k \in {HookJob} : Enqueue(k.recipients, k.from_override)
  \/ \E t \in ThreadIds : WorkerCheck(t)
  \/ \E t \in ThreadIds : WorkerGet(t)
  \/ \E t \in ThreadIds : WorkerEmpty(t)
  \/ \E t \in ThreadIds : WorkerSend(t)
  \/ \E t \in ThreadIds : WorkerRequeue(t)
  \/ SinkFlip

SpecAudit == Init /\ [][NextAudit]_vars

(***************************************************************************)
(* mailer.py: one send_email call on its own.                              *)
(***************************************************************************)
RecipientStrings ==
  {MailAddr, PaddedMailAddr, HookUrl, HookUrlUpper, BlankRecipient, OddRecipient}

\* the recipient lists of at most MaxRecipients entries
SendRecipientLists ==
  UNION {[1..n -> RecipientStrings] : n \in 0..MaxRecipients}

SendCall ==
  /\ sendIn = <<>>
  /\ \E rs \in SendRecipientLists, fo \in FromOverrides, e \in Environments,
        smtpOk \in BOOLEAN, hookOk \in HookOutcomes :
       /\ sendIn' = <<[recipients |-> rs, from_override |-> fo, env |-> e,
                       smtpOk |-> smtpOk, hookOk |-> hookOk]>>
       /\ sendOut' = <<SendEmail(rs, fo, e, smtpOk, hookOk)>>
  /\ UNCHANGED <<queueVars, rateVars, otherVars>>

SendReturn ==
  /\ sendIn # <<>>
  /\ sendIn' = <<>>
  /\ sendOut' = <<>>
  /\ UNCHANGED <<queueVars, rateVars, otherVars>>

NextSend == SendCall \/ SendReturn

SpecSend == Init /\ [][NextSend]_vars

(***************************************************************************)
(* email_queue.py: the backoff schedule.  Seconds are counted in           *)
(* milliseconds; every base explored is a multiple of 10 ms, so that the   *)
(* 10% jitter is a whole number.                                           *)
(***************************************************************************)
Max(a, b) == IF a >= b THEN a ELSE b

\* a backoff that grows by the base at each attempt instead of doubling
BackoffLinear(base, attempts) == base * attempts

\* _worker, line 59: backoff = base_backoff_seconds * (2 ** (job.attempts - 1))
Backoff(base, attempts) == base * 2^(attempts - 1)

\* _worker, lines 59-61: sleep_for
SleepFor(base, attempts) ==
  LET backoff == Backoff(base, attempts)
      jitter == backoff \div 10
  IN  Max(100, backoff + (IF attempts % 2 = 0 THEN jitter ELSE -jitter))

\* EmailQueue(max_retries, base_backoff_seconds) and one job enqueued
InitBackoff ==
  /\ bo_base \in BackoffBases
  /\ bo_limit \in 0..MaxRetryLimit
  /\ bo_attempts = 0
  /\ bo_pc = "send"
  /\ bo_sleeps = <<>>

\* _worker, lines 55-76: send_email raised
DispatchFails ==
  /\ bo_pc = "send"
  /\ bo_attempts' = bo_attempts + 1
  /\ IF bo_attempts' <= bo_limit
       THEN /\ bo_sleeps' = Append(bo_sleeps, SleepFor(bo_base, bo_attempts'))
            /\ bo_pc' = "sleep"
       ELSE /\ bo_sleeps' = bo_sleeps
            /\ bo_pc' = "failed"
  /\ UNCHANGED <<bo_base, bo_limit>>
  /\ UNCHANGED <<queueVars, rateVars, sendVars, httpVars, composeVars, pureVars, guardVars>>

\* _worker, lines 72-73 and 48: the sleep ends, the job is put back and taken
SleepEnds ==
  /\ bo_pc = "sleep"
  /\ bo_pc' = "send"
  /\ UNCHANGED <<bo_base, bo_limit, bo_attempts, bo_sleeps>>
  /\ UNCHANGED <<queueVars, rateVars, sendVars, httpVars, composeVars, pureVars, guardVars>>

NextBackoff == DispatchFails \/ SleepEnds

InitSchedule ==
  /\ env = FullEnvironment /\ InitQueue /\ InitRate /\ InitSend
  /\ InitBackoff /\ InitHttp /\ InitCompose /\ InitPure /\ InitGuard

SpecBackoff == InitSchedule /\ [][NextBackoff]_vars

(***************************************************************************)
(* mailer.py: _partition_recipients called twice on one list.              *)
(***************************************************************************)
PartitionStrings == RecipientStrings \cup {HookUrlSecure, TwoAtRecipient, PaddedHookUrl}

PartitionLists == UNION {[1..n -> PartitionStrings] : n \in 0..MaxRecipients}

PartitionCall ==
  /\ pureIn = <<>>
  /\ \E rs \in PartitionLists :
       /\ pureIn' = <<rs>>
       /\ pureOut' = <<PartitionRecipients(rs)>>
  /\ UNCHANGED <<queueVars, rateVars, sendVars, backoffVars, httpVars, composeVars, guardVars>>

PartitionAgain ==
  /\ pureIn # <<>>
  /\ Len(pureOut) = 1
  /\ pureOut' = Append(pureOut, PartitionRecipients(pureIn[1]))
  /\ UNCHANGED pureIn
  /\ UNCHANGED <<queueVars, rateVars, sendVars, backoffVars, httpVars, composeVars, guardVars>>

\* both results have been compared; the next input
PureReturn ==
  /\ Len(pureOut) = 2
  /\ pureIn' = <<>>
  /\ pureOut' = <<>>
  /\ UNCHANGED <<queueVars, rateVars, sendVars, backoffVars, httpVars, composeVars, guardVars>>

NextPartition == PartitionCall \/ PartitionAgain \/ PureReturn

SpecPartition == Init /\ [][NextPartition]_vars

(***************************************************************************)
(* rate_limit.py: RateLimiter                                              *)
(***************************************************************************)
\* a pruning loop that drops nothing
PruneNever(dq, cutoff) == dq

\* allow, lines 24-25: while dq and dq[0] < cutoff: dq.popleft()
RECURSIVE PruneOld(_, _)
PruneOld(dq, cutoff) ==
  IF dq # <<>> /\ Head(dq) < cutoff THEN PruneOld(Tail(dq), cutoff) ELSE dq

\* an admission test that lets one request too many through
AdmitsOneMore(dq) == Len(dq) <= max_requests

\* allow, line 26, for a limiter constructed with max_requests = n
AdmitsUnder(n, dq) == Len(dq) < n

\* allow, line 26: if len(dq) < self.max_requests
Admits(dq) == AdmitsUnder(max_requests, dq)

\* _ip_to_timestamps.get(ip_address), a new deque when there is none
WindowOf(ip) == IF ip \in DOMAIN ip_to_timestamps THEN ip_to_timestamps[ip] ELSE <<>>

\* allow, lines 18-29: the body of "with self._lock", run by a call that read
\* the clock value t at line 16; done is the clock at the decision, window
\* the deque as the pruning loop left it
Locked(ip, t) ==
  LET cutoff == t - window_seconds
      dq == PruneOld(WindowOf(ip), cutoff)
      ok == Admits(dq)
      kept == IF ok THEN Append(dq, t) ELSE dq
  IN  /\ ip_to_timestamps' =
           [k \in DOMAIN ip_to_timestamps \cup {ip} |->
              IF k = ip THEN kept ELSE ip_to_timestamps[k]]
      /\ calls' = Append(calls, [ip |-> ip, at |-> t, done |-> now, admitted |-> ok,
                                 window |-> dq])

\* allow(ip_address), lines 15-29, run without interruption at clock value now
Allow(ip) ==
  /\ Len(calls) < MaxCalls
  /\ Locked(ip, now)
  /\ UNCHANGED <<now, rl_pc, rl_ip, rl_now>>
  /\ UNCHANGED <<queueVars, sendVars, otherVars>>

\* time.time() advances between calls
Tick ==
  /\ now < MaxTime
  /\ now' = now + 1
  /\ UNCHANGED <<ip_to_timestamps, calls, rl_pc, rl_ip, rl_now>>
  /\ UNCHANGED <<queueVars, sendVars, otherVars>>

NextRate ==
  \/ \E ip \in Identities : Allow(ip)
  \/ Tick

SpecRate == Init /\ [][NextRate]_vars

\* allow, lines 16-17: now = time.time(); cutoff = now - self.window_seconds,
\* before the lock is taken
AllowRead(c, ip) ==
  /\ rl_pc[c] = "idle"
  /\ Len(calls) + Cardinality({d \in Callers : rl_pc[d] = "wait"}) < RaceCalls
  /\ rl_pc' = [rl_pc EXCEPT ![c] = "wait"]
  /\ rl_ip' = [rl_ip EXCEPT ![c] = ip]
  /\ rl_now' = [rl_now EXCEPT ![c] = now]
  /\ UNCHANGED <<now, ip_to_timestamps, calls>>
  /\ UNCHANGED <<queueVars, sendVars, otherVars>>

\* allow, lines 18-29: the call acquires the lock, prunes, decides, returns
AllowLocked(c) ==
  /\ rl_pc[c] = "wait"
  /\ Locked(rl_ip[c], rl_now[c])
  /\ rl_pc' = [rl_pc EXCEPT ![c] = "idle"]
  /\ rl_ip' = [rl_ip EXCEPT ![c] = None]
  /\ rl_now' = [rl_now EXCEPT ![c] = 0]
  /\ UNCHANGED now
  /\ UNCHANGED <<queueVars, sendVars, otherVars>>

\* allow() called from several threads at once
NextRateRace ==
  \/ \E c \in Callers, ip \in Identities : AllowRead(c, ip)
  \/ \E c \in Callers : AllowLocked(c)
  \/ Tick

SpecRateRace == Init /\ [][NextRateRace]_vars

(***************************************************************************)
(* app.py: ContactRequestHandler.  A request is served in one step.  A     *)
(* JSON value that may be absent is <<>> when absent and <<v>> otherwise.  *)
(***************************************************************************)
\* str.count(c)
CountOf(s, c) == Cardinality({i \in 1..Len(s) : s[i] = c})

\* s.split("@", 1)[1], for s that contains "@"
AfterAt(s) ==
  LET i == CHOOSE k \in 1..Len(s) : s[k] = "@" /\ \A m \in 1..(k - 1) : s[m] # "@"
  IN  SubSeq(s, i + 1, Len(s))

\* a string of n characters
Filler(n) == [i \in 1..n |-> "x"]

PaddedName == <<" ", "n", " ">>
PlainName == <<"n">>
PaddedEmail == <<" ", "a", "@", "b", ".", "c", " ">>
PlainEmail == <<"a", "@", "b", ".", "c">>
PaddedMessage == <<"\n", "m", " ">>
PlainMessage == <<"m">>
BlankField == <<" ", "\t">>
EmailNoDot == <<"a", "@", "b">>
EmailTwoAt == <<"a", "@", "@", "b", ".", "c">>
EmailWithSpace == <<"a", " ", "b", "@", "c", ".", "d">>
LongName == Filler(MaxNameLen + 1)
LongEmail == Filler(MaxEmailLen - 3) \o <<"@", "b", ".", "c">>
LongMessage == Filler(MaxMessageLen + 1)

\* the JSON object {"name": ..., "email": ..., "message": ...}
Form(name, email, message) ==
  [kind |-> "object", name |-> name, email |-> email, message |-> message]

\* a body that is not JSON, and JSON that is not an object
BadJson == [kind |-> "bad_json", name |-> <<>>, email |-> <<>>, message |-> <<>>]
NotAnObject == [kind |-> "not_object", name |-> <<>>, email |-> <<>>, message |-> <<>>]

PaddedForm == Form(<<PaddedName>>, <<PaddedEmail>>, <<PaddedMessage>>)

Bodies ==
  {PaddedForm,
   Form(<<PlainName>>, <<PlainEmail>>, <<PlainMessage>>),
   Form(<<>>, <<PlainEmail>>, <<PlainMessage>>),
   Form(<<PlainName>>, <<PlainEmail>>, <<BlankField>>),
   Form(<<LongName>>, <<PlainEmail>>, <<PlainMessage>>),
   Form(<<PlainName>>, <<LongEmail>>, <<PlainMessage>>),
   Form(<<PlainName>>, <<PlainEmail>>, <<LongMessage>>),
   Form(<<PlainName>>, <<EmailNoDot>>, <<PlainMessage>>),
   Form(<<PlainName>>, <<EmailTwoAt>>, <<PlainMessage>>),
   Form(<<PlainName>>, <<EmailWithSpace>>, <<PlainMessage>>),
   BadJson,
   NotAnObject}

\* the POST /api/contact requests: from one client every body with a
\* Content-Length within the ceiling, and from every client a well-formed
\* body with a Content-Length of 0, within the ceiling and above it
PostRequests ==
  [ip : {"10.0.0.1"}, content_length : {MAX_BODY_BYTES}, body : Bodies]
    \cup [ip : Identities, content_length : {0, MAX_BODY_BYTES, MAX_BODY_BYTES + 1},
          body : {PaddedForm}]

\* self.rate_limit_buckets.setdefault(ip, [])
BucketOf(ip) ==
  IF ip \in DOMAIN rate_limit_buckets THEN rate_limit_buckets[ip] ELSE <<>>

\* _rate_limit_check, lines 100-103: the value the loop leaves in i
DropIndex(bucket, window_start) ==
  IF \E k \in 1..Len(bucket) : bucket[k] >= window_start
    THEN (CHOOSE k \in 1..Len(bucket) :
            bucket[k] >= window_start /\ \A m \in 1..(k - 1) : bucket[m] < window_start) - 1
    ELSE IF bucket = <<>> THEN 0 ELSE Len(bucket) - 1

\* _rate_limit_check, lines 104-105: if i > 0: del bucket[:i]
DropOld(bucket, window_start) ==
  SubSeq(bucket, DropIndex(bucket, window_start) + 1, Len(bucket))

\* _rate_limit_check, lines 96-110, on the bucket b at clock value t with
\* REQUESTS_PER_MINUTE = n: the answer and the bucket
CheckUnder(n, b, t) ==
  LET bucket == DropOld(b, t - HandlerWindow)
      ok == ~(Len(bucket) >= n)
  IN  [ok |-> ok, bucket |-> IF ok THEN Append(bucket, t) ELSE bucket]

\* _rate_limit_check(), lines 94-110, at clock value t: the answer and the bucket
RateLimitCheck(ip, t) == CheckUnder(REQUESTS_PER_MINUTE, BucketOf(ip), t)

\* the buckets after _rate_limit_check()
BucketsAfter(ip, rl) ==
  [k \in DOMAIN rate_limit_buckets \cup {ip} |->
     IF k = ip THEN rl.bucket ELSE rate_limit_buckets[k]]

\* a row stored without the surrounding whitespace being removed
StoredRaw(v) == IF v = <<>> THEN <<>> ELSE v[1]

\* do_POST, lines 169-171: (data.get(key) or "").strip()
Stored(v) == IF v = <<>> THEN <<>> ELSE Strip(v[1])

\* do_POST, line 183
InvalidEmail(email) ==
  \/ ~Contains(email, "@")
  \/ CountOf(email, "@") # 1
  \/ ~Contains(AfterAt(email), ".")
  \/ Contains(email, " ")

Reply(status, error) == [status |-> status, error |-> error, row |-> <<>>]

\* do_POST, lines 157-199, for a request that passed _rate_limit_check;
\* dbOk: the INSERT and the commit succeed
Submit(req, dbOk) ==
  LET data == IF req.content_length > 0 THEN req.body ELSE Form(<<>>, <<>>, <<>>)
      name == Stored(data.name)
      email == Stored(data.email)
      message == Stored(data.message)
  IN  IF req.content_length > MAX_BODY_BYTES THEN Reply(413, "Payload Too Large")
      ELSE IF data.kind = "bad_json" THEN Reply(400, "Invalid JSON")
      ELSE IF data.kind = "not_object" THEN Reply(500, "AttributeError")
      ELSE IF ~(name # <<>> /\ email # <<>> /\ message # <<>>)
        THEN Reply(400, "All fields are required")
      ELSE IF Len(name) > MaxNameLen \/ Len(email) > MaxEmailLen \/ Len(message) > MaxMessageLen
        THEN Reply(400, "Fields too long")
      ELSE IF InvalidEmail(email) THEN Reply(400, "Invalid email")
      ELSE IF ~dbOk THEN Reply(500, "sqlite3.Error")
      ELSE [status |-> 201, error |-> None,
            row |-> <<[name |-> name, email |-> email, message |-> message]>>]

\* the outcomes of the INSERT of lines 187-194, for the requests that reach it
DbOutcomes(req) == IF Submit(req, TRUE).status = 201 THEN BOOLEAN ELSE {TRUE}

\* do_POST on /api/contact, lines 152-200
Post(req, dbOk) ==
  /\ Len(contacts) < MaxContacts
  /\ LET rl == RateLimitCheck(req.ip, now)
         r == IF rl.ok THEN Submit(req, dbOk) ELSE Reply(429, "Too Many Requests")
     IN  /\ rate_limit_buckets' = BucketsAfter(req.ip, rl)
         /\ contacts' = contacts \o r.row
         /\ accepted' = IF r.status = 201 THEN Append(accepted, req.body) ELSE accepted
         /\ lastPost' = <<[req |-> req, counted |-> rl.ok, status |-> r.status,
                           error |-> r.error, before |-> contacts]>>
         /\ lastGet' = <<>>
  /\ UNCHANGED <<queueVars, rateVars, sendVars, backoffVars, composeVars, pureVars, guardVars>>

\* ORDER BY created_at DESC: the newest row first
Newest(rows) == [i \in 1..Len(rows) |-> rows[Len(rows) + 1 - i]]

\* do_GET on /api/contacts, lines 122-148; answered: the bodies answered
\* 201 before this request
Get(ip, dbOk) ==
  /\ LET rl == RateLimitCheck(ip, now)
     IN  /\ rate_limit_buckets' = BucketsAfter(ip, rl)
         /\ lastGet' =
              <<[answered |-> accepted,
                 status |-> IF ~rl.ok THEN 429 ELSE IF dbOk THEN 200 ELSE 500,
                 contacts |-> IF rl.ok /\ dbOk THEN Newest(contacts) ELSE <<>>]>>
  /\ lastPost' = <<>>
  /\ UNCHANGED <<contacts, accepted>>
  /\ UNCHANGED <<queueVars, rateVars, sendVars, backoffVars, composeVars, pureVars, guardVars>>

NextHttp ==
  \/ \E req \in PostRequests : \E dbOk \in DbOutcomes(req) : Post(req, dbOk)
  \/ \E ip \in Identities, dbOk \in BOOLEAN : Get(ip, dbOk)
  \/ Tick

SpecHttp == Init /\ [][NextHttp]_vars

(***************************************************************************)
(* The two limiters given the same limit and the same calls.               *)
(***************************************************************************)
\* RateLimiter(n, window_seconds).allow(ip), lines 15-29, on the deque dq at
\* clock value t: the answer and the deque
AllowUnder(n, dq, t) ==
  LET kept == PruneOld(dq, t - window_seconds)
      ok == AdmitsUnder(n, kept)
  IN  [ok |-> ok, dq |-> IF ok THEN Append(kept, t) ELSE kept]

\* one call (ip, now) made to RateLimiter.allow and to _rate_limit_check
CheckBoth(ip) ==
  /\ Len(h_log) < MaxCalls
  /\ LET a == AllowUnder(limit, WindowOf(ip), now)
         h == CheckUnder(limit, BucketOf(ip), now)
     IN  /\ ip_to_timestamps' =
              [k \in DOMAIN ip_to_timestamps \cup {ip} |->
                 IF k = ip THEN a.dq ELSE ip_to_timestamps[k]]
         /\ rate_limit_buckets' = BucketsAfter(ip, h)
         /\ h_log' = Append(h_log, [ip |-> ip, at |-> now, admitted |-> h.ok,
                                    allow |-> a.ok])
  /\ UNCHANGED <<now, calls, rl_pc, rl_ip, rl_now>>
  /\ UNCHANGED <<contacts, accepted, lastPost, lastGet>>
  /\ UNCHANGED <<limit, h_pc, h_ip, h_now, h_i>>
  /\ UNCHANGED <<queueVars, sendVars, backoffVars, composeVars, pureVars>>

NextCompare ==
  \/ \E ip \in Identities : CheckBoth(ip)
  \/ Tick

\* both limiters constructed with the same limit, from 1 up
InitCompare ==
  /\ env = FullEnvironment /\ InitQueue /\ InitRate /\ InitSend
  /\ InitBackoffDefault /\ InitHttp /\ InitCompose /\ InitPure
  /\ limit \in 1..REQUESTS_PER_MINUTE
  /\ InitThreads

SpecCompare == InitCompare /\ [][NextCompare]_vars

(***************************************************************************)
(* app.py: _rate_limit_check run by several handler threads at once        *)
(* (ThreadingHTTPServer starts one thread per request).                    *)
(***************************************************************************)
\* lines 95-98: now = time.time(), ip, window_start, and
\* bucket = self.rate_limit_buckets.setdefault(ip, [])
GuardRead(c, ip) ==
  /\ h_pc[c] = "idle"
  /\ Len(h_log) + Cardinality({d \in Callers : h_pc[d] # "idle"}) < RaceCalls
  /\ h_pc' = [h_pc EXCEPT ![c] = "scan"]
  /\ h_ip' = [h_ip EXCEPT ![c] = ip]
  /\ h_now' = [h_now EXCEPT ![c] = now]
  /\ rate_limit_buckets' =
       [k \in DOMAIN rate_limit_buckets \cup {ip} |-> BucketOf(k)]
  /\ UNCHANGED <<limit, h_log, h_i>>
  /\ UNCHANGED <<contacts, accepted, lastPost, lastGet>>
  /\ UNCHANGED <<queueVars, rateVars, sendVars, backoffVars, composeVars, pureVars>>

\* lines 100-103: the loop that looks for the first timestamp in the window
GuardScan(c) ==
  /\ h_pc[c] = "scan"
  /\ h_i' = [h_i EXCEPT ![c] = DropIndex(BucketOf(h_ip[c]), h_now[c] - HandlerWindow)]
  /\ h_pc' = [h_pc EXCEPT ![c] = "del"]
  /\ UNCHANGED <<limit, h_log, h_ip, h_now>>
  /\ UNCHANGED httpVars
  /\ UNCHANGED <<queueVars, rateVars, sendVars, backoffVars, composeVars, pureVars>>

\* lines 104-105: if i > 0: del bucket[:i], on the list as it is now
GuardDel(c) ==
  /\ h_pc[c] = "del"
  /\ rate_limit_buckets' =
       [rate_limit_buckets EXCEPT ![h_ip[c]] =
          IF h_i[c] > 0 THEN SubSeq(@, h_i[c] + 1, Len(@)) ELSE @]
  /\ h_pc' = [h_pc EXCEPT ![c] = "test"]
  /\ UNCHANGED <<limit, h_log, h_ip, h_now, h_i>>
  /\ UNCHANGED <<contacts, accepted, lastPost, lastGet>>
  /\ UNCHANGED <<queueVars, rateVars, sendVars, backoffVars, composeVars, pureVars>>

\* lines 107-108: if len(bucket) >= REQUESTS_PER_MINUTE: return False
GuardTest(c) ==
  /\ h_pc[c] = "test"
  /\ IF Len(BucketOf(h_ip[c])) >= REQUESTS_PER_MINUTE
       THEN /\ h_log' = Append(h_log, [ip |-> h_ip[c], at |-> h_now[c], admitted |-> FALSE])
            /\ h_pc' = [h_pc EXCEPT ![c] = "idle"]
            /\ h_ip' = [h_ip EXCEPT ![c] = None]
            /\ h_now' = [h_now EXCEPT ![c] = 0]
            /\ h_i' = [h_i EXCEPT ![c] = 0]
       ELSE /\ h_pc' = [h_pc EXCEPT ![c] = "append"]
            /\ UNCHANGED <<h_log, h_ip, h_now, h_i>>
  /\ UNCHANGED limit
  /\ UNCHANGED httpVars
  /\ UNCHANGED <<queueVars, rateVars, sendVars, backoffVars, composeVars, pureVars>>

\* lines 109-110: bucket.append(now); return True
GuardAppend(c) ==
  /\ h_pc[c] = "append"
  /\ rate_limit_buckets' =
       [rate_limit_buckets EXCEPT ![h_ip[c]] = Append(@, h_now[c])]
  /\ h_log' = Append(h_log, [ip |-> h_ip[c], at |-> h_now[c], admitted |-> TRUE])
  /\ h_pc' = [h_pc EXCEPT ![c] = "idle"]
  /\ h_ip' = [h_ip EXCEPT ![c] = None]
  /\ h_now' = [h_now EXCEPT ![c] = 0]
  /\ h_i' = [h_i EXCEPT ![c] = 0]
  /\ UNCHANGED limit
  /\ UNCHANGED <<contacts, accepted, lastPost, lastGet>>
  /\ UNCHANGED <<queueVars, rateVars, sendVars, backoffVars, composeVars, pureVars>>

NextGuardRace ==
  \/ \E c \in Callers, ip \in Identities : GuardRead(c, ip)
  \/ \E c \in Callers : GuardScan(c)
  \/ \E c \in Callers : GuardDel(c)
  \/ \E c \in Callers : GuardTest(c)
  \/ \E c \in Callers : GuardAppend(c)
  \/ Tick

SpecGuardRace == Init /\ [][NextGuardRace]_vars

(***************************************************************************)
(* ai_formatter.py.  A text is a sequence of characters and of the literal *)
(* pieces of the templates; a dict entry that may be absent is <<>> or     *)
(* <<v>>.                                                                  *)
(***************************************************************************)
\* a default that replaces an absent field only, not a blank one
FieldOrUntrimmed(v, default) == IF v = <<>> THEN default ELSE v[1]

\* submission.get(key, "").strip() or default
FieldOr(v, default) ==
  LET t == IF v = <<>> THEN <<>> ELSE Strip(v[1])
  IN  IF t = <<>> THEN default ELSE t

\* _fallback_format(submission), lines 6-17
FallbackFormat(submission) ==
  LET name == FieldOr(submission.name, <<"Someone">>)
      email == FieldOr(submission.email, <<"unknown@example.com">>)
      message == FieldOr(submission.message, <<"(no message)">>)
  IN  [subject |-> <<"New contact from ">> \o name,
       body |-> <<"You received a new contact submission.\n\n", "Name: ">> \o name
                  \o <<"\n", "Email: ">> \o email
                  \o <<"\n\n", "Message:\n">> \o message \o <<"\n">>]

\* the values of a key of the parsed response
JsonAbsent == [kind |-> "absent", text |-> <<>>]
JsonNull == [kind |-> "null", text |-> <<>>]
JsonNumber == [kind |-> "number", text |-> <<>>]
JsonString(t) == [kind |-> "string", text |-> t]
JsonValues ==
  {JsonAbsent, JsonNull, JsonNumber, JsonString(<<>>), JsonString(<<" ", "H", "i", " ">>)}

\* the outcomes of the generative call: the import or the request raises
\* or times out, the message has no content, the content is not JSON, it is
\* JSON but no object, it is an object
CallOutcomes ==
  [kind : {"raises", "timeout", "no_content", "not_json", "not_object"},
   subject : {JsonAbsent}, body : {JsonAbsent}]
    \cup [kind : {"object"}, subject : JsonValues, body : JsonValues]

\* lines 50-51: (parsed.get(key) or default).strip(); <<>> when .strip()
\* raises AttributeError, <<text>> otherwise
TextOrDefault(v, default) ==
  IF v.kind \in {"absent", "null"} \/ (v.kind = "string" /\ v.text = <<>>)
    THEN <<default>>
  ELSE IF v.kind = "string" THEN <<Strip(v.text)>>
  ELSE <<>>

\* craft_subject_and_body(submission), lines 20-55, with OPENAI_API_KEY set
\* or not and the outcome of the generative call
CraftSubjectAndBody(submission, api_key, outcome) ==
  LET parsed == IF outcome.kind = "no_content"
                  THEN [kind |-> "object", subject |-> JsonAbsent, body |-> JsonAbsent]
                  ELSE outcome
      subject == TextOrDefault(parsed.subject, <<"New form submission">>)
      body == TextOrDefault(parsed.body, <<"See details in the submission.">>)
  IN  IF Falsy(api_key) THEN FallbackFormat(submission)
      ELSE IF parsed.kind # "object" THEN FallbackFormat(submission)
      ELSE IF subject = <<>> \/ body = <<>> THEN FallbackFormat(submission)
      ELSE [subject |-> subject[1], body |-> body[1]]

SubmissionFields == {<<>>, <<BlankField>>, <<PaddedName>>, <<PlainMessage>>}
Submissions == [name : SubmissionFields, email : SubmissionFields, message : SubmissionFields]
ApiKeys == {None, "sk-key"}

ComposeCall ==
  /\ composeIn = <<>>
  /\ \E submission \in Submissions, api_key \in ApiKeys, outcome \in CallOutcomes :
       /\ composeIn' = <<[submission |-> submission, api_key |-> api_key,
                          outcome |-> outcome]>>
       /\ composeOut' = <<CraftSubjectAndBody(submission, api_key, outcome)>>
  /\ UNCHANGED <<queueVars, rateVars, sendVars, backoffVars, httpVars, pureVars, guardVars>>

ComposeReturn ==
  /\ composeIn # <<>>
  /\ composeIn' = <<>>
  /\ composeOut' = <<>>
  /\ UNCHANGED <<queueVars, rateVars, sendVars, backoffVars, httpVars, pureVars, guardVars>>

NextCompose == ComposeCall \/ ComposeReturn

SpecCompose == Init /\ [][NextCompose]_vars

(***************************************************************************)
(* ai_formatter.py: _fallback_format called twice on one submission.       *)
(***************************************************************************)
FallbackCall ==
  /\ pureIn = <<>>
  /\ \E submission \in Submissions :
       /\ pureIn' = <<submission>>
       /\ pureOut' = <<FallbackFormat(submission)>>
  /\ UNCHANGED <<queueVars, rateVars, sendVars, backoffVars, httpVars, composeVars, guardVars>>

FallbackAgain ==
  /\ pureIn # <<>>
  /\ Len(pureOut) = 1
  /\ pureOut' = Append(pureOut, FallbackFormat(pureIn[1]))
  /\ UNCHANGED pureIn
  /\ UNCHANGED <<queueVars, rateVars, sendVars, backoffVars, httpVars, composeVars, guardVars>>

FallbackReturn ==
  /\ Len(pureOut) = 2
  /\ pureIn' = <<>>
  /\ pureOut' = <<>>
  /\ UNCHANGED <<queueVars, rateVars, sendVars, backoffVars, httpVars, composeVars, guardVars>>

NextFallback == FallbackCall \/ FallbackAgain \/ FallbackReturn

SpecFallback == Init /\ [][NextFallback]_vars

(***************************************************************************)
(* The retry ceiling.                                                      *)
(***************************************************************************)
\* C1: a job whose every dispatch attempt failed (it was never delivered) has
\* had at most max_retries + 1 attempts, one retry audit event per attempt up
\* to max_retries and a permanent-failure event exactly when the attempt
\* max_retries + 1 was made; once attempts > max_retries the job is
\* permanently failed: max_retries + 1 attempts, max_retries retry events,
\* one permanent-failure event, and it is neither queued nor held again.
C1_RetryCeiling ==
  \A j \in Created :
    /\ sends[j] <= max_retries + 1
    /\ audit[j].email_send_failed <= 1
    /\ j \notin delivered =>
         /\ jobs[j].attempts = sends[j]
         /\ audit[j].email_send_retry = Min(sends[j], max_retries)
         /\ audit[j].email_send_failed = IF sends[j] > max_retries THEN 1 ELSE 0
    /\ jobs[j].attempts > max_retries =>
         /\ j \in permFailed
         /\ sends[j] = max_retries + 1
         /\ audit[j].email_send_retry = max_retries
         /\ audit[j].email_send_failed = 1
         /\ ~InQueue(j)
         /\ Holders(j) = {}

C1_Witness ==
  \E j \in Created :
    /\ j \in permFailed
    /\ sends[j] = max_retries + 1
    /\ audit[j].email_send_failed = 1

\* one step of job j, from its state before to its state after
C2_Step(j) ==
  LET a == Status(j)
      b == StatusOf(Len(jobs'), queue', held', thr', delivered', permFailed', j)
      failed == /\ sends'[j] = sends[j] + 1
                /\ lastError'[j] # None
                /\ jobs'[j].attempts = jobs[j].attempts + 1
  IN  a # b =>
        \/ a = "Absent" /\ b = "Queued"
        \/ a = "Queued" /\ b = "Dispatching"
        \/ a = "Dispatching" /\ b = "Delivered"
              /\ sends'[j] = sends[j] + 1 /\ lastError'[j] = None
        \/ a = "Dispatching" /\ b = "Retrying"
              /\ failed /\ jobs'[j].attempts <= max_retries
        \/ a = "Dispatching" /\ b = "PermanentlyFailed"
              /\ failed /\ jobs'[j].attempts > max_retries
        \/ a = "Retrying" /\ b = "Queued"

\* C2: a job changes state only along Absent -> Queued -> Dispatching ->
\* {Delivered, Retrying -> Queued, PermanentlyFailed}; Delivered and
\* PermanentlyFailed are never left; Retrying is entered by a failed dispatch
\* that leaves attempts <= max_retries, PermanentlyFailed by a failed
\* dispatch that leaves attempts > max_retries.
C2_Transitions == [][\A j \in JobIds : C2_Step(j)]_vars

C2_Witness ==
  \E j, k \in Created :
    /\ Status(j) = "PermanentlyFailed"
    /\ Status(k) = "Delivered"
    /\ jobs[k].attempts > 0

(***************************************************************************)
(* Order, workers and ownership.                                           *)
(***************************************************************************)
\* worker t taking a job from the queue in this step
C4_Take(t) ==
  (held[t] = 0 /\ held'[t] # 0) =>
    LET j == held'[t]
    IN  /\ takes[j] = 0 => \A k \in 1..(j - 1) : takes[k] > 0
        /\ takes[j] > 0 =>
             /\ reqMark[j] >= j
             /\ \A k \in 1..reqMark[j] : k # j => takes[k] > 0

\* C4: when a worker takes a job for its first attempt, every job enqueued
\* before it has already been taken; when it takes a job again after a
\* retry, every other job that had been enqueued by the time the job was put
\* back (the end of its backoff sleep) has already been taken.
C4_FifoOrder == [][\A t \in ThreadIds : C4_Take(t)]_vars

C4_Witness ==
  \E j, k \in Created :
    /\ j < k
    /\ takes[j] >= 2
    /\ reqMark[j] >= k
    /\ takes[k] >= 1

\* C5: at most one worker thread runs, and at most one job is held by a
\* worker (in dispatch or in backoff), at any time.
C5_SingleWorker ==
  /\ Cardinality({t \in ThreadIds : IsAlive(t)}) <= 1
  /\ Cardinality({t \in ThreadIds : held[t] # 0}) <= 1

\* C9: a worker that was running when stop() set the stop signal takes at
\* most one more job from the queue.
C9_StopsAfterSignal == \A t \in ThreadIds : afterStop[t] <= 1

\* the number of places job j is in
Occurrences(j) == Cardinality({i \in 1..Len(queue) : queue[i] = j})

Places(j) ==
  Occurrences(j) + Cardinality(Holders(j))
    + (IF j \in delivered THEN 1 ELSE 0) + (IF j \in permFailed THEN 1 ELSE 0)

\* C10: every created job is in exactly one place (once in the queue, held
\* by one worker, delivered, or permanently failed), no other job id is
\* anywhere, and enqueue() can always complete, whatever the workers do.
C10_OnePlace ==
  /\ \A j \in JobIds : Places(j) = IF j \in Created THEN 1 ELSE 0
  /\ Len(jobs) < MaxJobs => ENABLED Enqueue(HookJob.recipients, HookJob.from_override)

C10_Witness ==
  \E j, k \in Created, t \in ThreadIds :
    /\ j # k
    /\ InQueue(k)
    /\ held[t] = j
    /\ thr[t] = "sleep"
    /\ takes[k] > 0

(***************************************************************************)
(* Configuration errors and the development fallback.                      *)
(***************************************************************************)
ConfigErrors == {ErrNoSender, ErrNoRecipients}

\* C7: a job whose dispatch failed with a configuration error (no sender, no
\* recipients) is permanently failed at once: one permanent-failure audit
\* event, no retry event, not held for a backoff and not back in the queue.
C7_ConfigErrorTerminal ==
  \A j \in Created :
    lastError[j] \in ConfigErrors =>
      /\ Status(j) = "PermanentlyFailed"
      /\ audit[j].email_send_failed = 1
      /\ audit[j].email_send_retry = 0

\* a job with exactly one recipient, an email address, dispatched while no
\* SMTP endpoint is configured
OneEmailNoSmtp(j) ==
  /\ Len(jobs[j].recipients) = 1
  /\ Len(PartitionRecipients(jobs[j].recipients).emails) = 1
  /\ Falsy(env.SMTP_HOST)

DevFallbackOnce(j) ==
  /\ sends[j] <= 1
  /\ devEmits[j] = sends[j]
  /\ jobs[j].attempts = 0
  /\ audit[j].email_send_retry = 0
  /\ audit[j].email_send_failed = 0
  /\ sends[j] = 1 =>
       /\ Status(j) = "Delivered"
       /\ audit[j].email_sent = 1
       /\ Len(jobs) = 1 => queue = <<>>

\* C8 as stated: a job with one email recipient and no SMTP endpoint is never
\* retried; once dispatched it has emitted the dev fallback exactly once, its
\* attempt counter is 0, it has no retry or permanent-failure audit event and
\* it is out of the queue (which is empty when it was the only job).
C8_DevFallbackAlways == \A j \in Created : OneEmailNoSmtp(j) => DevFallbackOnce(j)

\* C8, amended: the same, for a job for which a sender is available
\* (MAIL_FROM is set or the job carries a from_override).
C8_DevFallbackWithSender ==
  \A j \in Created :
    (OneEmailNoSmtp(j) /\ ~NoSender(env.MAIL_FROM, jobs[j].from_override)) =>
      DevFallbackOnce(j)

C8_Witness ==
  \E j \in Created :
    /\ OneEmailNoSmtp(j)
    /\ ~NoSender(env.MAIL_FROM, jobs[j].from_override)
    /\ Status(j) = "Delivered"
    /\ devEmits[j] = 1
    /\ queue = <<>>

(***************************************************************************)
(* Partial failure of a dispatch.                                          *)
(***************************************************************************)
\* C6: a send_email call for a job with both email and webhook recipients
\* that gets past the configuration checks attempts the email path and the
\* webhook path, and raises exactly when one of the two paths fails.
C6_BothPathsAttempted ==
  sendOut # <<>> =>
    LET in == sendIn[1]
        r == sendOut[1]
        parts == PartitionRecipients(in.recipients)
        emailFails == ~Falsy(in.env.SMTP_HOST) /\ ~in.smtpOk
        hookFails == \E i \in 1..Len(parts.webhooks) : ~in.hookOk[i]
    IN  (parts.emails # <<>> /\ parts.webhooks # <<>> /\ r.error \notin ConfigErrors) =>
          /\ r.smtp_tried \/ r.dev_fallback
          /\ r.posts # <<>>
          /\ (r.error # None) <=> (emailFails \/ hookFails)

(***************************************************************************)
(* The sliding window.                                                     *)
(***************************************************************************)
AdmittedIn(ip, from, to) ==
  {i \in 1..Len(calls) :
     calls[i].ip = ip /\ calls[i].admitted /\ from <= calls[i].at /\ calls[i].at <= to}

CallsOf(ip, a, b) == {i \in a..b : calls[i].ip = ip}

\* C3: for every identity, no interval of window_seconds holds more than
\* max_requests admitted calls; and when a call finds no admission of its
\* identity in the trailing window, it and the following calls of that
\* identity, up to max_requests in all and within window_seconds of it, are
\* all admitted.
C3_SlidingWindow ==
  /\ \A ip \in Identities, s \in 0..MaxTime :
       Cardinality(AdmittedIn(ip, s, s + window_seconds)) <= max_requests
  /\ \A a \in 1..Len(calls), b \in 1..Len(calls) :
       ( /\ a <= b
         /\ calls[b].ip = calls[a].ip
         /\ \A i \in 1..(a - 1) :
              ~(calls[i].ip = calls[a].ip /\ calls[i].admitted
                  /\ calls[i].at >= calls[a].at - window_seconds)
         /\ Cardinality(CallsOf(calls[a].ip, a, b)) <= max_requests
         /\ calls[b].at <= calls[a].at + window_seconds )
       => calls[b].admitted

C3_Witness ==
  \E i, k \in 1..Len(calls) :
    /\ i < k
    /\ calls[i].ip = calls[k].ip
    /\ ~calls[i].admitted
    /\ calls[k].admitted
    /\ Cardinality(AdmittedIn(calls[i].ip, 0, MaxTime)) = max_requests + 1

(***************************************************************************)
(* The sliding window under concurrent calls.                              *)
(***************************************************************************)
\* admitted calls of ip whose clock reading lies in [from, to]
AdmittedAt(ip, from, to) ==
  {i \in 1..Len(calls) :
     calls[i].ip = ip /\ calls[i].admitted /\ from <= calls[i].at /\ calls[i].at <= to}

\* admitted calls of ip whose decision was taken while the clock was in [from, to]
AdmittedDone(ip, from, to) ==
  {i \in 1..Len(calls) :
     calls[i].ip = ip /\ calls[i].admitted /\ from <= calls[i].done /\ calls[i].done <= to}

\* C11: whatever the interleaving of allow() calls, the window of an identity
\* never holds more than max_requests timestamps, and no interval of
\* window_seconds holds more than max_requests admitted calls of an identity
\* (a call being placed at the clock value it read and recorded).
C11_NoDoubleAdmission ==
  /\ \A ip \in DOMAIN ip_to_timestamps : Len(ip_to_timestamps[ip]) <= max_requests
  /\ \A ip \in Identities, s \in 0..MaxTime :
       Cardinality(AdmittedAt(ip, s, s + window_seconds)) <= max_requests

\* the first half of C11 alone: the length of the windows
C11_WindowLength ==
  \A ip \in DOMAIN ip_to_timestamps : Len(ip_to_timestamps[ip]) <= max_requests

\* the second half of C11 with a call placed at the time of its decision
C11_ByDecisionTime ==
  \A ip \in Identities, s \in 0..MaxTime :
    Cardinality(AdmittedDone(ip, s, s + window_seconds)) <= max_requests

\* C12: after the pruning step of a call, every timestamp retained for the
\* identity lies within [now - window_seconds, now] of that call.
C12_NoExpiredRetained ==
  \A i \in 1..Len(calls) : \A k \in 1..Len(calls[i].window) :
    /\ calls[i].at - window_seconds <= calls[i].window[k]
    /\ calls[i].window[k] <= calls[i].at

\* C13: in a sequence of allow() calls, when a call of an identity was
\* rejected and a later call of that identity is made after the clock has
\* advanced by more than window_seconds, with no admission of that identity
\* in between, the later call is admitted.
C13_AdmittedAfterWindow ==
  \A i \in 1..Len(calls), k \in 1..Len(calls) :
    ( /\ i < k
      /\ calls[k].ip = calls[i].ip
      /\ ~calls[i].admitted
      /\ Len(calls[i].window) = max_requests
      /\ calls[k].at > calls[i].at + window_seconds
      /\ \A m \in (i + 1)..(k - 1) : ~(calls[m].ip = calls[i].ip /\ calls[m].admitted) )
    => calls[k].admitted

C13_Witness ==
  \E i \in 1..Len(calls), k \in 1..Len(calls) :
    /\ i = max_requests + 1
    /\ k = i + 1
    /\ \A m \in 1..max_requests : calls[m].ip = calls[i].ip /\ calls[m].admitted
    /\ calls[k].ip = calls[i].ip
    /\ ~calls[i].admitted
    /\ calls[k].at > calls[i].at + window_seconds
    /\ calls[k].admitted

(***************************************************************************)
(* The backoff schedule.                                                   *)
(***************************************************************************)
\* the sleep the claim gives for attempt n, in tenths of a millisecond
C14_Expected(base, n) ==
  LET b == base * 2^(n - 1)
  IN  IF n % 2 = 0 THEN 11 * b ELSE 9 * b

\* C14: the n-th failed dispatch of a job (n <= max_retries) is followed by
\* a sleep of max(0.1 s, base * 2^(n-1) less 10% for odd n, plus 10% for even
\* n); with base 1.0 s the first sleep lies in [0.9, 1.1] s and the third
\* in [3.6, 4.4] s; every sleep lies within 10% of base * 2^(n-1) or is the
\* 0.1 s floor; and a sleep follows exactly the attempts up to max_retries.
C14_BackoffSchedule ==
  /\ Len(bo_sleeps) = Min(bo_attempts, bo_limit)
  /\ \A n \in 1..Len(bo_sleeps) :
       LET sl == bo_sleeps[n]
           b == bo_base * 2^(n - 1)
       IN  /\ sl >= 100
           /\ 10 * sl = Max(1000, C14_Expected(bo_base, n))
           /\ sl = 100 \/ (9 * b <= 10 * sl /\ 10 * sl <= 11 * b)
           /\ (bo_base = 1000 /\ n = 1) => (900 <= sl /\ sl <= 1100)
           /\ (bo_base = 1000 /\ n = 3) => (3600 <= sl /\ sl <= 4400)

C14_Witness ==
  /\ bo_base = 1000
  /\ bo_pc = "sleep"
  /\ bo_attempts = 3
  /\ bo_sleeps = <<900, 2200, 3600>>

(***************************************************************************)
(* The attempt counter.                                                    *)
(***************************************************************************)
\* one step, seen from job j
C15_Step(j) ==
  LET failed == j \in Created /\ sends'[j] = sends[j] + 1 /\ lastError'[j] # None
      after == StatusOf(Len(jobs'), queue', held', thr', delivered', permFailed', j)
  IN  /\ (j \notin Created /\ j <= Len(jobs')) => jobs'[j].attempts = 0
      /\ j \in Created =>
           /\ jobs'[j].attempts <= max_retries + 1
           /\ IF failed THEN jobs'[j].attempts = jobs[j].attempts + 1
                        ELSE jobs'[j].attempts = jobs[j].attempts
           /\ failed => /\ (after = "Retrying") <=> (jobs'[j].attempts <= max_retries)
                        /\ (after = "PermanentlyFailed") <=> (jobs'[j].attempts > max_retries)

\* C15: a job's attempt counter is 0 when the job is enqueued, grows by one
\* at each failed dispatch and is changed by no other step, never exceeds
\* max_retries + 1, and after a failed dispatch the job is retried exactly
\* when the counter is at most max_retries and permanently failed otherwise.
C15_AttemptCounter == [][\A j \in JobIds : C15_Step(j)]_vars

C15_Witness ==
  \E j \in Created :
    /\ j \in delivered
    /\ jobs[j].attempts = max_retries
    /\ sends[j] = max_retries + 1
    /\ lastError[j] = None

(***************************************************************************)
(* The From of a notification.                                             *)
(***************************************************************************)
\* the override of a send_email call is present and permitted
C16_Permitted(in) == in.env.ALLOW_SUBMITTER_AS_FROM /\ ~Falsy(in.from_override)

\* what C16 says of the call in and its outcome r
C16_Holds(in, r) ==
  IF Falsy(in.env.MAIL_FROM) /\ ~C16_Permitted(in)
    THEN /\ r.error = ErrNoSender
         /\ ~r.smtp_tried /\ ~r.dev_fallback /\ r.posts = <<>>
    ELSE LET from == IF C16_Permitted(in) THEN in.from_override ELSE in.env.MAIL_FROM
         IN  /\ (r.smtp_tried \/ r.dev_fallback) => r.from_email = from
             /\ r.posts # <<>> => r.from_hook = from

\* C16: a send_email call made with no MAIL_FROM and no override that is
\* both present and permitted raises the configuration error before it sends
\* anything; any other call uses as From, on the email path and in the
\* webhook payload, the override when it is present and permitted and
\* MAIL_FROM otherwise.
C16_SenderOrConfigError == sendOut # <<>> => C16_Holds(sendIn[1], sendOut[1])

\* C16 for every call but those with no MAIL_FROM and an override that is
\* present and not permitted
C16_ExceptUnpermittedOverride ==
  sendOut # <<>> =>
    \/ /\ Falsy(sendIn[1].env.MAIL_FROM)
       /\ ~Falsy(sendIn[1].from_override)
       /\ ~sendIn[1].env.ALLOW_SUBMITTER_AS_FROM
    \/ C16_Holds(sendIn[1], sendOut[1])

(***************************************************************************)
(* The HTTP handler.                                                       *)
(***************************************************************************)
\* C17: a POST /api/contact request rejected by the body-size ceiling (413),
\* by the field length ceilings or by the email format check (400) records
\* no timestamp in the rate window of its sender.
C17_RejectedUncounted ==
  lastPost # <<>> =>
    LET p == lastPost[1]
    IN  (p.status = 413 \/ p.error \in {"Fields too long", "Invalid email"}) =>
          /\ ~p.counted
          /\ \A k \in 1..Len(BucketOf(p.req.ip)) : BucketOf(p.req.ip)[k] # now

\* C18: every submission answered 201 has exactly one delivery job handed to
\* the delivery queue: there are as many jobs as accepted submissions.
C18_AcceptedEnqueued == Len(jobs) = Len(accepted)

\* t is s without its leading and trailing whitespace
C19_IsTrimOf(t, s) ==
  \E a \in 0..Len(s), b \in 0..Len(s) :
    /\ a <= b
    /\ t = SubSeq(s, a + 1, b)
    /\ \A i \in 1..a : IsSpace(s[i])
    /\ \A i \in (b + 1)..Len(s) : IsSpace(s[i])
    /\ t # <<>>
    /\ ~IsSpace(t[1])
    /\ ~IsSpace(t[Len(t)])

\* row is the submission body with its three fields trimmed
C19_RowOf(row, body) ==
  /\ body.kind = "object"
  /\ body.name # <<>> /\ body.email # <<>> /\ body.message # <<>>
  /\ C19_IsTrimOf(row.name, body.name[1])
  /\ C19_IsTrimOf(row.email, body.email[1])
  /\ C19_IsTrimOf(row.message, body.message[1])

\* a field that is missing or holds only whitespace
C19_Blank(v) == v = <<>> \/ \A i \in 1..Len(v[1]) : IsSpace(v[1][i])

C19_Count(rows, r) == Cardinality({i \in 1..Len(rows) : rows[i] = r})

\* C19: the contacts table holds exactly the submissions answered 201, in
\* order, each with its name, email and message trimmed; GET /api/contacts
\* lists exactly these rows; a request answered 429, 413 or 400 leaves the
\* table as it was, a request answered 201 adds one row; and a request that
\* gets as far as validation with a missing or blank field is answered 400
\* "All fields are required".
C19_StoredAreAccepted ==
  /\ Len(contacts) = Len(accepted)
  /\ \A i \in 1..Len(contacts) : C19_RowOf(contacts[i], accepted[i])
  /\ lastPost # <<>> =>
       LET p == lastPost[1]
       IN  /\ p.status \in {429, 413, 400} => contacts = p.before
           /\ p.status = 201 =>
                /\ Len(contacts) = Len(p.before) + 1
                /\ SubSeq(contacts, 1, Len(p.before)) = p.before
                /\ accepted[Len(accepted)] = p.req.body
           /\ ( /\ p.status \notin {429, 413}
                /\ p.req.content_length > 0
                /\ p.req.body.kind = "object"
                /\ \/ C19_Blank(p.req.body.name)
                   \/ C19_Blank(p.req.body.email)
                   \/ C19_Blank(p.req.body.message) )
              => (p.status = 400 /\ p.error = "All fields are required")
  /\ (lastGet # <<>> /\ lastGet[1].status = 200) =>
       /\ lastGet[1].answered = accepted
       /\ Len(lastGet[1].contacts) = Len(contacts)
       /\ \A i \in 1..Len(contacts) :
            C19_Count(lastGet[1].contacts, contacts[i]) = C19_Count(contacts, contacts[i])

C19_Witness ==
  /\ lastGet # <<>>
  /\ lastGet[1].status = 200
  /\ Len(lastGet[1].contacts) = 2
  /\ accepted[1] = PaddedForm
  /\ contacts[1] = [name |-> PlainName, email |-> PlainEmail, message |-> PlainMessage]
  /\ accepted[2] # PaddedForm

(***************************************************************************)
(* The notification composer.                                              *)
(***************************************************************************)
\* the response parsed to an object that has the key as a text
C20_HasText(v) == v.kind = "string"

\* C20: craft_subject_and_body returns a pair; and when OPENAI_API_KEY is
\* missing, the call fails or times out, or the response does not parse to
\* an object with both a subject text and a body text, the pair is the
\* output of the fallback template for the submission.
C20_FallbackOnBadResponse ==
  composeOut # <<>> =>
    LET in == composeIn[1]
        out == composeOut[1]
    IN  /\ DOMAIN out = {"subject", "body"}
        /\ ( \/ Falsy(in.api_key)
             \/ in.outcome.kind # "object"
             \/ ~C20_HasText(in.outcome.subject)
             \/ ~C20_HasText(in.outcome.body) )
           => out = FallbackFormat(in.submission)

\* C20 with the fallback required only when the key is missing, the call
\* fails or times out, the content is not a JSON object, or a key holds a
\* value that is neither absent, null nor a text
C20_FallbackOnFailure ==
  composeOut # <<>> =>
    LET in == composeIn[1]
        out == composeOut[1]
    IN  /\ DOMAIN out = {"subject", "body"}
        /\ ( \/ Falsy(in.api_key)
             \/ in.outcome.kind \in {"raises", "timeout", "not_json", "not_object"}
             \/ in.outcome.kind = "object" /\ in.outcome.subject.kind = "number"
             \/ in.outcome.kind = "object" /\ in.outcome.body.kind = "number" )
           => out = FallbackFormat(in.submission)

(***************************************************************************)
(* Recipient classification and the fallback template.                     *)
(***************************************************************************)
\* the recipients labelled l, trimmed, in the order of the list
C21_Labelled(rs, lab, l) ==
  LET Is(i) == lab[i] = l
      at == SelectSeq([i \in 1..Len(rs) |-> i], Is)
  IN  [k \in 1..Len(at) |-> Strip(rs[at[k]])]

\* C21: _partition_recipients puts every string that starts with http:// or
\* https:// among the webhooks and not among the emails, every other string
\* with exactly one @ and no / among the emails, every non-blank recipient
\* in exactly one of the two lists, in the order of the input, and a second
\* call on the same list returns the same pair.
C21_Classification ==
  pureIn # <<>> =>
    LET rs == pureIn[1]
    IN  /\ \A k \in 1..Len(pureOut) : pureOut[k] = pureOut[1]
        /\ \E lab \in [1..Len(rs) -> {"email", "webhook", "blank"}] :
             /\ \A i \in 1..Len(rs) :
                  LET r == rs[i]
                      url == StartsWith(r, HttpPrefix) \/ StartsWith(r, HttpsPrefix)
                  IN  /\ (lab[i] = "blank") <=> (\A c \in 1..Len(r) : IsSpace(r[c]))
                      /\ url => lab[i] = "webhook"
                      /\ (~url /\ CountOf(r, "@") = 1 /\ ~Contains(r, "/")) => lab[i] = "email"
             /\ pureOut[1].emails = C21_Labelled(rs, lab, "email")
             /\ pureOut[1].webhooks = C21_Labelled(rs, lab, "webhook")

C21_Witness ==
  /\ Len(pureOut) = 2
  /\ pureIn[1] = <<HookUrlSecure, PaddedMailAddr, HookUrl>>
  /\ pureOut[2].webhooks = <<HookUrlSecure, HookUrl>>
  /\ Len(pureOut[2].emails) = 1

\* the texts the template may show for the field v: its default when v is
\* absent or blank, v trimmed otherwise
C22_Shown(v, default) ==
  IF v = <<>> \/ (\A i \in 1..Len(v[1]) : IsSpace(v[1][i]))
    THEN {default}
    ELSE {t \in {SubSeq(v[1], a, b) : a \in 1..Len(v[1]), b \in 1..Len(v[1])} :
            C19_IsTrimOf(t, v[1])}

\* C22: _fallback_format returns, for the same submission, the same subject
\* and body at every call: the subject is "New contact from " followed by
\* the name, the body is the template filled with name, email and message,
\* each trimmed, or "Someone", "unknown@example.com", "(no message)" when
\* the field is absent or blank.
C22_FallbackTemplate ==
  pureIn # <<>> =>
    LET sub == pureIn[1]
    IN  /\ \A k \in 1..Len(pureOut) : pureOut[k] = pureOut[1]
        /\ \E name \in C22_Shown(sub.name, <<"Someone">>),
              email \in C22_Shown(sub.email, <<"unknown@example.com">>),
              message \in C22_Shown(sub.message, <<"(no message)">>) :
             /\ pureOut[1].subject = <<"New contact from ">> \o name
             /\ pureOut[1].body =
                  <<"You received a new contact submission.\n\n", "Name: ">> \o name
                    \o <<"\n", "Email: ">> \o email
                    \o <<"\n\n", "Message:\n">> \o message \o <<"\n">>

C22_Witness ==
  /\ Len(pureOut) = 2
  /\ pureIn[1] = [name |-> <<BlankField>>, email |-> <<>>, message |-> <<PaddedName>>]
  /\ pureOut[2].subject = <<"New contact from ", "Someone">>

(***************************************************************************)
(* What a delivered job has reached, and what a retry sends again.         *)
(***************************************************************************)
\* a job is dropped as delivered only after an attempt in which the email
\* group and every webhook recipient took the message
C23_DeliveredComplete ==
  \A j \in Created : j \in delivered => lastOk[j] = Targets(jobs[j].recipients)

\* every target that took the message in an earlier attempt is contacted in
\* the latest attempt
C23_ResentLater ==
  \A j \in Created : sentOk[j] \subseteq lastTried[j]

\* C23: delivery is at least once per recipient: a Delivered job had its
\* email group and every webhook recipient sent to successfully in its final
\* attempt, and a recipient whose send succeeded in an attempt that failed
\* overall is sent to again in every later attempt.
C23_AtLeastOnce == C23_DeliveredComplete /\ C23_ResentLater

(***************************************************************************)
(* The audit trail of the worker.                                          *)
(***************************************************************************)
C24_Calls(a, j) == a[j].email_sent + a[j].email_send_retry + a[j].email_send_failed

C24_Step ==
  \A t \in ThreadIds :
    (thr[t] = "send" /\ sends'[held[t]] = sends[held[t]] + 1) =>
      LET j == held[t]
          ok == lastError'[j] = None
          n == jobs'[j].attempts
      IN  /\ C24_Calls(audit', j) = C24_Calls(audit, j) + 1
          /\ \A i \in JobIds \ {j} : audit'[i] = audit[i]
          /\ ok => /\ audit'[j].email_sent = audit[j].email_sent + 1
                   /\ n = jobs[j].attempts
                   /\ j \in delivered' /\ thr'[t] = "check"
          /\ (~ok /\ n <= max_retries) =>
                   /\ audit'[j].email_send_retry = audit[j].email_send_retry + 1
                   /\ n = jobs[j].attempts + 1
                   /\ thr'[t] = "sleep" /\ held'[t] = j /\ queue' = queue
          /\ (~ok /\ n > max_retries) =>
                   /\ audit'[j].email_send_failed = audit[j].email_send_failed + 1
                   /\ n = jobs[j].attempts + 1
                   /\ j \in permFailed' /\ thr'[t] = "check" /\ queue' = queue

\* C24: every dispatch attempt makes exactly one record_event call, of the
\* type of its outcome (email_sent on success, email_send_retry on a failure
\* with attempts <= max_retries, made before the sleep and the re-enqueue,
\* email_send_failed on a failure with attempts > max_retries), and the job
\* is handled the same way whether or not the audit database can be written.
C24_OneEventPerAttempt == [][C24_Step]_vars

C24_Witness ==
  /\ ~sink_up
  /\ \E j \in delivered : audit[j].email_send_retry = 1 /\ audit[j].email_sent = 1
  /\ \E j \in permFailed : audit[j].email_send_failed = 1
  /\ audit_rows = 0

(***************************************************************************)
(* The handler's rate limit against RateLimiter.                           *)
(***************************************************************************)
\* C25: given the same limit (1 or more), the same window and the same
\* calls (identity, time) with non-decreasing times, _rate_limit_check
\* returns at every call the decision of RateLimiter.allow.
C25_SameDecisions ==
  \A k \in 1..Len(h_log) : h_log[k].admitted = h_log[k].allow

\* the admitted checks of identity ip made at clock value t
C26_AdmittedAt(ip, t) ==
  Cardinality({k \in 1..Len(h_log) :
                 h_log[k].ip = ip /\ h_log[k].at = t /\ h_log[k].admitted})

C26_WithinLimit ==
  \A ip \in DOMAIN rate_limit_buckets :
    Len(rate_limit_buckets[ip]) <= REQUESTS_PER_MINUTE

C26_NothingLost ==
  \A ip \in DOMAIN rate_limit_buckets : \A t \in 0..MaxTime :
    t >= now - HandlerWindow =>
      CountOf(rate_limit_buckets[ip], t) >= C26_AdmittedAt(ip, t)

\* C26: whatever the interleaving of the handler threads that run
\* _rate_limit_check for one identity, its bucket never holds more than
\* REQUESTS_PER_MINUTE timestamps, and every admitted timestamp stays in the
\* bucket while it is in the window.
C26_BucketConsistent == C26_WithinLimit /\ C26_NothingLost

(***************************************************************************)
(* Restart after stop(), and termination of every job.                     *)
(***************************************************************************)
\* C27: once stop() has returned and a later start() call has returned, a
\* worker thread is alive and the stop event is clear (so that the jobs in
\* the queue and those enqueued afterwards get dispatched), also when
\* stop() returned on the timeout of its join with the worker still inside
\* send_email or time.sleep.
C27_RestartRuns ==
  since_stop = "restarted" => (~stop_event /\ thread # 0 /\ IsAlive(thread))

\* what follows in the run that breaks C27_RestartRuns: a job is queued and
\* no thread is left to take it
C27_Stranded ==
  /\ since_stop = "restarted"
  /\ queue # <<>>
  /\ \A t \in ThreadIds : ~IsAlive(t)
  /\ cpc[1] = "idle"

\* C28: with the worker started and no stop(), every enqueued job ends as
\* Delivered or PermanentlyFailed whatever its dispatch attempts give, and
\* from some point on the queue stays empty.
C28_EveryJobEnds ==
  /\ \A j \in JobIds :
       (j \in Created) ~> (Status(j) \in {"Delivered", "PermanentlyFailed"})
  /\ <>[](queue = <<>> /\ \A t \in ThreadIds : held[t] = 0)

C28_Witness ==
  /\ Len(jobs) = MaxJobs
  /\ \E j \in permFailed : sends[j] = max_retries + 1
  /\ \E j \in delivered : sends[j] = 2
  /\ queue = <<>>
  /\ \E t \in ThreadIds : thr[t] = "get"

====
